---- MODULE Spec2Model ----
(***************************************************************************)
(* The calorie tracker's per-date-map HTTP server: the request router, the *)
(* five API handlers and the JSON file store behind them.                  *)
(*                                                                         *)
(* One action is one request handled from routing to response.  The store  *)
(* file is read and written by every handler through readData / writeData. *)
(*                                                                         *)
(* Further down: the flat-array variant of the server (SpecFlat), a save   *)
(* cut short by a crash (SpecCrash), parseBody on a request's events       *)
(* (SpecParse), the browser client in front of the server (SpecPage) and   *)
(* requests in flight at the same time (SpecConc), a save that throws      *)
(* (SpecSave), one request from arrival to response (SpecAnswer), the      *)
(* page with overlapping refreshes (SpecView) and getTodayDate (SpecDate). *)
(***************************************************************************)
EXTENDS Integers, Sequences, FiniteSets, TLC

(***************************************************************************)
(* Bounds of the model.                                                    *)
(***************************************************************************)
MaxEntries == 2      \* creations accepted in one behaviour (ids issued)
MaxClock == 1        \* the clock runs over the days 0..MaxClock

\* the events a request emits while its body is read
MaxEvents == 3

(***************************************************************************)
(* JavaScript values, as far as the handlers tell them apart.  A value is  *)
(* a record [t, n, s]: t is the kind, n the number of a finite number (the *)
(* sign of an infinite one), s the characters of a string.                 *)
(***************************************************************************)
Undefined == [t |-> "undefined", n |-> 0, s |-> <<>>]
Null == [t |-> "null", n |-> 0, s |-> <<>>]
Str(chars) == [t |-> "string", n |-> 0, s |-> chars]
Num(k) == [t |-> "number", n |-> k, s |-> <<>>]
Infinity == [t |-> "infinity", n |-> 1, s |-> <<>>]
NegInfinity == [t |-> "infinity", n |-> -1, s |-> <<>>]
Bool == [t |-> "boolean", n |-> 1, s |-> <<>>]
Arr == [t |-> "array", n |-> 0, s |-> <<>>]
Obj == [t |-> "object", n |-> 0, s |-> <<>>]

\* typeof v
TypeOf(v) ==
  CASE v.t \in {"number", "infinity"} -> "number"
    [] v.t \in {"null", "array", "object"} -> "object"
    [] OTHER -> v.t

\* v < 0 for a value whose typeof is "number"
IsNegative(v) == v.n < 0

IsWhite(c) == c = " "

\* a character outside ASCII: one UTF-16 unit, two bytes in UTF-8
EAcute == "é"

\* String.prototype.trimStart and trimEnd, then trim
RECURSIVE TrimStart(_)
TrimStart(s) ==
  IF s # <<>> /\ IsWhite(Head(s)) THEN TrimStart(Tail(s)) ELSE s

RECURSIVE TrimEnd(_)
TrimEnd(s) ==
  IF s # <<>> /\ IsWhite(s[Len(s)]) THEN TrimEnd(SubSeq(s, 1, Len(s) - 1)) ELSE s

Trim(s) == TrimEnd(TrimStart(s))

(***************************************************************************)
(* Dates.  The clock counts UTC days; toISOString().slice(0, 10) of an     *)
(* instant is the name of its day.                                         *)
(***************************************************************************)
DayNames == <<"2024-01-01", "2024-01-02", "2024-01-03", "2024-01-04">>

IsoDate(t) == DayNames[t + 1]

\* the dates the clock of the model can show
Dates == {IsoDate(t) : t \in 0..MaxClock}

\* a name every object inherits from Object.prototype
ProtoKey == "constructor"

\* a date before every day of the clock
HistoricDate == "2020-01-01"

CalendarDates == Dates \cup {HistoricDate}

\* values of the date query parameter; "" is an absent or empty parameter
QueryDates == CalendarDates \cup {"", ProtoKey}

(***************************************************************************)
(* JSON.stringify / JSON.parse of the store and of response bodies.        *)
(* A number that is not finite is written as null.                         *)
(***************************************************************************)
JSONValue(v) == IF v.t = "infinity" THEN Null ELSE v

JSONEntry(e) == [e EXCEPT !.calories = JSONValue(e.calories)]

JSONList(list) == [i \in 1..Len(list) |-> JSONEntry(list[i])]

JSONEntries(entries) ==
  [i \in 1..Len(entries) |->
     [key |-> entries[i].key, list |-> JSONList(entries[i].list)]]

\* { entries: {} }
Initial == <<>>

\* writeData(data): the file's content after the write
writeData(entries) ==
  [exists |-> TRUE, parsable |-> TRUE, entries |-> JSONEntries(entries)]

\* data.json after a write that stopped part way: text JSON.parse rejects
Truncated == [exists |-> TRUE, parsable |-> FALSE, entries |-> <<>>]

\* readData(): the collection it returns, and the file it leaves behind
readData(f) == IF f.exists /\ f.parsable THEN f.entries ELSE Initial

\* the catch branch without its writeData(initial)
readDataFileKeeps(f) == f

readDataFile(f) == IF f.exists /\ f.parsable THEN f ELSE writeData(Initial)

(***************************************************************************)
(* The collection: data.entries, an object whose own keys are dates in     *)
(* insertion order, each holding an array of entries.                      *)
(***************************************************************************)
Keys(entries) == {entries[i].key : i \in 1..Len(entries)}

KeyIndex(entries, k) == CHOOSE i \in 1..Len(entries) : entries[i].key = k

\* data.entries[date] || [] for a key that is not inherited
ListAt(entries, k) ==
  IF k \in Keys(entries) THEN entries[KeyIndex(entries, k)].list ELSE <<>>

\* data.entries[date] is a function inherited from Object.prototype
IsInherited(entries, k) == k = ProtoKey /\ k \notin Keys(entries)

\* entries.reduce((sum, e) => sum + e.calories, 0); null adds as 0
RECURSIVE SumFrom(_, _)
SumFrom(list, sum) ==
  IF list = <<>> THEN sum
  ELSE SumFrom(Tail(list),
               IF Head(list).calories.t = "number"
                 THEN sum + Head(list).calories.n ELSE sum)

\* reduce without its initial value: the first entry is not added
TotalSkipsFirst(list) == IF list = <<>> THEN 0 ELSE SumFrom(Tail(list), 0)

Total(list) == SumFrom(list, 0)

\* = in place of ===: the predicate holds of the first entry
FindIndexFirst(list, id) == IF list = <<>> THEN 0 ELSE 1

\* findIndex(e => e.id === entryId): 0 stands for -1
FindIndex(list, id) ==
  IF \E i \in 1..Len(list) : list[i].id = id
    THEN CHOOSE i \in 1..Len(list) :
           list[i].id = id /\ \A j \in 1..(i - 1) : list[j].id # id
    ELSE 0

\* slice(idx, 1) in place of splice: the array is left as it was
SpliceKeeps(list, idx) == list

\* list.splice(idx, 1)
Splice(list, idx) ==
  [i \in 1..(Len(list) - 1) |-> IF i < idx THEN list[i] ELSE list[i + 1]]

\* delete data.entries[date]
DeleteKey(entries, k) ==
  IF k \in Keys(entries)
    THEN LET p == KeyIndex(entries, k)
         IN [i \in 1..(Len(entries) - 1) |->
               IF i < p THEN entries[i] ELSE entries[i + 1]]
    ELSE entries

\* unshift in place of push: the entry goes to the front
PushFront(entries, k, e) ==
  IF k \in Keys(entries)
    THEN [entries EXCEPT ![KeyIndex(entries, k)].list = <<e>> \o @]
    ELSE Append(entries, [key |-> k, list |-> <<e>>])

\* data.entries[today].push(entry), creating the key when it is absent
Push(entries, k, e) ==
  IF k \in Keys(entries)
    THEN [entries EXCEPT ![KeyIndex(entries, k)].list = Append(@, e)]
    ELSE Append(entries, [key |-> k, list |-> <<e>>])

(***************************************************************************)
(* Requests.  A POST body is the text the client sent: nothing, text that  *)
(* is not JSON, or JSON whose value is an object with the properties name  *)
(* and calories (Undefined when the property is absent), null, or another  *)
(* value (an array, a string, a number, a boolean).  The object bodies are *)
(* every name with calories absent and with calories 1, and every calories *)
(* with a name that passes.                                                *)
(***************************************************************************)
NameInputs ==
  {Undefined, Null, Str(<<>>), Str(<<" ", " ">>), Str(<<" ", EAcute, " ">>),
   Num(5), Bool, Arr, Obj}

CaloriesInputs ==
  {Undefined, Null, Str(<<"a">>), Num(-1), Num(0), Num(1), Infinity,
   NegInfinity}

\* a name that passes validation
ValidName == Str(<<" ", EAcute, " ">>)

Body(text, kind, name, calories) ==
  [text |-> text, kind |-> kind, name |-> name, calories |-> calories]

Bodies ==
  {Body("empty", "none", Undefined, Undefined),
   Body("malformed", "none", Undefined, Undefined),
   Body("json", "null", Undefined, Undefined),
   Body("json", "other", Undefined, Undefined)}
  \cup {Body("json", "object", n, c) : n \in NameInputs, c \in {Undefined, Num(1)}}
  \cup {Body("json", "object", ValidName, c) : c \in CaloriesInputs}

\* ids a client can put in DELETE /api/entries/{id}; 0 was never issued
RequestIds == 0..MaxEntries

NoBody == Body("none", "none", Undefined, Undefined)

(***************************************************************************)
(* The router.  A pathname is the sequence of its segments: "/" is <<>>,   *)
(* "/api/entries" is <<"api", "entries">>.                                 *)
(***************************************************************************)
Methods == {"GET", "POST", "DELETE", "PUT"}

EntriesPath == <<"api", "entries">>

TotalPath == <<"api", "total">>

\* the segment an id is written as
IdSegment(id) == <<"0", "1", "2", "3", "4">>[id + 1]

EntryPath(id) == <<"api", "entries", IdSegment(id)>>

Pathnames == {EntriesPath, TotalPath, EntryPath(0), <<"api", "other">>, <<>>}

\* pathname.startsWith('/api/')
IsApiPath(path) == Len(path) >= 2 /\ path[1] = "api"

\* pathname.startsWith('/api/entries/')
IsEntryPath(path) == Len(path) >= 3 /\ SubSeq(path, 1, 2) = EntriesPath

\* the unknown API route left to the static responder
RouteToStatic(method, path) ==
  CASE IsApiPath(path) /\ method = "GET" /\ path = EntriesPath -> "GET_ENTRIES"
    [] IsApiPath(path) /\ method = "GET" /\ path = TotalPath -> "GET_TOTAL"
    [] IsApiPath(path) /\ method = "POST" /\ path = EntriesPath -> "POST"
    [] IsApiPath(path) /\ method = "DELETE" /\ path = EntriesPath -> "CLEAR"
    [] IsApiPath(path) /\ method = "DELETE" /\ IsEntryPath(path) -> "DELETE_ID"
    [] OTHER -> "STATIC"

\* the handler the router gives a request to
Route(method, path) ==
  IF IsApiPath(path)
    THEN CASE method = "GET" /\ path = EntriesPath -> "GET_ENTRIES"
           [] method = "GET" /\ path = TotalPath -> "GET_TOTAL"
           [] method = "POST" /\ path = EntriesPath -> "POST"
           [] method = "DELETE" /\ path = EntriesPath -> "CLEAR"
           [] method = "DELETE" /\ IsEntryPath(path) -> "DELETE_ID"
           [] OTHER -> "NOT_FOUND"
    ELSE "STATIC"

\* the method and the pathname of the request a handler is given
MethodOf(op) ==
  CASE op \in {"GET_ENTRIES", "GET_TOTAL"} -> "GET"
    [] op = "POST" -> "POST"
    [] op \in {"CLEAR", "DELETE_ID"} -> "DELETE"
    [] OTHER -> ""

PathOf(op, id) ==
  CASE op \in {"GET_ENTRIES", "POST", "CLEAR"} -> EntriesPath
    [] op = "GET_TOTAL" -> TotalPath
    [] op = "DELETE_ID" -> EntryPath(id)
    [] OTHER -> <<>>

\* a request, with the server's current date when it was handled
Request(op, q, id, body, today) ==
  [op |-> op, q |-> q, id |-> id, body |-> body, today |-> today,
   method |-> MethodOf(op), path |-> PathOf(op, id)]

\* req.url values that new URL(req.url, base) rejects, such as "//"
InvalidUrlRequest(method, today) ==
  [op |-> "INVALID_URL", q |-> "", id |-> 0, body |-> NoBody,
   today |-> today, method |-> method, path |-> <<>>]

\* a request that no handler is given
OtherRequest(method, path, today) ==
  [op |-> Route(method, path), q |-> "", id |-> 0, body |-> NoBody,
   today |-> today, method |-> method, path |-> path]

(***************************************************************************)
(* Responses, as the client decodes them.                                  *)
(***************************************************************************)
Response(kind, status, error, entries, total, entry) ==
  [kind |-> kind, status |-> status, error |-> error, entries |-> entries,
   total |-> total, entry |-> entry]

\* sendJSON(res, statusCode, { error })
sendError(status, message) ==
  Response("error", status, message, <<>>, 0, <<>>)

\* sendJSON(res, 200, entries)
sendEntries(list) == Response("entries", 200, "", JSONList(list), 0, <<>>)

\* sendJSON(res, 200, { total })
sendTotal(total) == Response("total", 200, "", <<>>, total, <<>>)

\* sendJSON(res, 201, entry)
sendEntry(e) == Response("entry", 201, "", <<>>, 0, <<JSONEntry(e)>>)

\* sendEmpty(res, 204)
sendEmpty == Response("empty", 204, "", <<>>, 0, <<>>)

NoResponse == Response("none", 0, "", <<>>, 0, <<>>)

\* the router's catch: sendJSON(res, 500, { error: 'Internal server error' })
InternalError == sendError(500, "Internal server error")

\* the handler did not call writeData(data)
NotSaved == [done |-> FALSE, entries |-> <<>>]

\* what a handler leaves: the file, the response, the instant of its last
\* clock read, whether it threw instead of responding, and the collection
\* it gave to writeData
Outcome(f, response, clock) ==
  [file |-> f, res |-> response, clock |-> clock, thrown |-> FALSE,
   saved |-> NotSaved]

\* writeData(data) and then the response
Saved(data, response, clock) ==
  [file |-> writeData(data), res |-> response, clock |-> clock,
   thrown |-> FALSE, saved |-> [done |-> TRUE, entries |-> data]]

Throw(f, clock) ==
  [file |-> f, res |-> NoResponse, clock |-> clock, thrown |-> TRUE,
   saved |-> NotSaved]

\* the default left out: the key is the parameter as it came
DateOfParameter(q, t) == q

\* query.get('date') || getToday()
DateOf(q, t) == IF q = "" THEN IsoDate(t) ELSE q

(***************************************************************************)
(* The handlers.                                                           *)
(***************************************************************************)
handleGetEntries(f, q, t) ==
  LET date == DateOf(q, t)
      data == readData(f)
  IN  IF IsInherited(data, date)
        THEN Throw(readDataFile(f), t)   \* JSON.stringify gives undefined
        ELSE Outcome(readDataFile(f), sendEntries(ListAt(data, date)), t)

handleGetTotal(f, q, t) ==
  LET date == DateOf(q, t)
      data == readData(f)
  IN  IF IsInherited(data, date)
        THEN Throw(readDataFile(f), t)   \* entries.reduce is not a function
        ELSE Outcome(readDataFile(f), sendTotal(Total(ListAt(data, date))), t)

\* the parse error swallowed: the body is taken as {}
parseBodyNeverRejects(body) == FALSE

\* parseBody(req): the promise rejects on text that is not JSON
parseBodyRejects(body) == body.text = "malformed"

\* the messages of the four validation branches
ValidationMessages ==
  {"Name is required", "Calories is required", "Calories must be a number",
   "Calories cannot be negative"}

\* body.name and body.calories read from the parsed value
NameOf(body) == IF body.kind = "object" THEN body.name ELSE Undefined

CaloriesOf(body) == IF body.kind = "object" THEN body.calories ELSE Undefined

NameMissing(name) ==
  \/ name.t = "undefined"
  \/ name.t = "null"
  \/ (TypeOf(name) = "string" /\ Trim(name.s) = <<>>)

CaloriesMissing(calories) == calories.t \in {"undefined", "null"}

\* typeof body.calories !== 'number' || isNaN(body.calories)
CaloriesNotNumber(calories) == TypeOf(calories) # "number"

\* <= in place of <: zero is turned away
CaloriesNotPositive(calories) == calories.n <= 0

CaloriesNegative(calories) == IsNegative(calories)

\* crypto.randomUUID(): an id no entry was given before
randomUUID(ids) == Len(ids) + 1

\* t1 and t2 are the instants of the two clock reads of a creation
handlePostEntry(f, body, ids, t0, t1, t2) ==
  IF parseBodyRejects(body) THEN Outcome(f, sendError(400, "Invalid JSON"), t0)
  ELSE IF body.text = "json" /\ body.kind = "null" THEN Throw(f, t0)
  ELSE IF NameMissing(NameOf(body))
    THEN Outcome(f, sendError(400, "Name is required"), t0)
  ELSE IF CaloriesMissing(CaloriesOf(body))
    THEN Outcome(f, sendError(400, "Calories is required"), t0)
  ELSE IF CaloriesNotNumber(CaloriesOf(body))
    THEN Outcome(f, sendError(400, "Calories must be a number"), t0)
  ELSE IF CaloriesNegative(CaloriesOf(body))
    THEN Outcome(f, sendError(400, "Calories cannot be negative"), t0)
  ELSE IF TypeOf(NameOf(body)) # "string"
    THEN Throw(f, t1)                    \* body.name.trim is not a function
  ELSE
    LET today == IsoDate(t1)
        entry == [id |-> randomUUID(ids),
                  name |-> Trim(NameOf(body).s),
                  calories |-> CaloriesOf(body),
                  timestamp |-> t2]
        data == Push(readData(f), today, entry)
    IN  Saved(data, sendEntry(entry), t2)

\* the first date, in key order, whose array holds the id; 0 when none does
FoundAt(entries, id) ==
  IF \E i \in 1..Len(entries) : FindIndex(entries[i].list, id) # 0
    THEN CHOOSE i \in 1..Len(entries) :
           /\ FindIndex(entries[i].list, id) # 0
           /\ \A j \in 1..(i - 1) : FindIndex(entries[j].list, id) = 0
    ELSE 0

\* the length test left out: the date is dropped with all its entries
RemoveAtDropsDate(entries, p, id) == DeleteKey(entries, entries[p].key)

\* `delete data.entries[date]` left out: the date stays with an empty array
RemoveAtKeepsKey(entries, p, id) ==
  [entries EXCEPT ![p].list = Splice(entries[p].list, FindIndex(entries[p].list, id))]

\* the loop body: splice the entry out, drop the date when its array is empty
RemoveAt(entries, p, id) ==
  LET list == Splice(entries[p].list, FindIndex(entries[p].list, id))
  IN  IF Len(list) = 0
        THEN DeleteKey(entries, entries[p].key)
        ELSE [entries EXCEPT ![p].list = list]

\* the scan limited to today's entries
handleDeleteEntryByIdToday(f, id, t) ==
  LET data == readData(f)
      today == IsoDate(t)
  IN  IF FindIndex(ListAt(data, today), id) = 0
        THEN Outcome(readDataFile(f), sendError(404, "Entry not found"), t)
        ELSE Saved(RemoveAt(data, KeyIndex(data, today), id), sendEmpty, t)

handleDeleteEntryById(f, id, t) ==
  LET data == readData(f)
      p == FoundAt(data, id)
  IN  IF p = 0
        THEN Outcome(readDataFile(f), sendError(404, "Entry not found"), t)
        ELSE Saved(RemoveAt(data, p, id), sendEmpty, t)

\* data.entries = {} in place of the delete: every date is cleared
handleClearDayAll(f, q, t) == Saved(Initial, sendEmpty, t)

\* the date parameter ignored: today is cleared
handleClearDayToday(f, q, t) ==
  Saved(DeleteKey(readData(f), IsoDate(t)), sendEmpty, t)

handleClearDay(f, q, t) ==
  LET date == DateOf(q, t)
      data == readData(f)
  IN  Saved(DeleteKey(data, date), sendEmpty, t)

\* serveStaticFile: the file's content, or 404 when there is no such file
StaticStatuses == {200, 404}

serveStaticFile(status) ==
  IF status = 200
    THEN Response("file", 200, "", <<>>, 0, <<>>)
    ELSE sendError(404, "Not found")

(***************************************************************************)
(* What sendJSON and sendEmpty put on the wire.  A text is a sequence of   *)
(* pieces, each a run of ASCII characters or one character of a name.      *)
(***************************************************************************)
\* JSON.stringify of a number or null
NumberText(v) == IF v.t = "number" THEN ToString(v.n) ELSE "null"

\* JSON.stringify(entry); a timestamp is the first instant of its day
EntryText(e) ==
  <<"{\"id\":\"", ToString(e.id), "\",\"name\":\"">> \o e.name
  \o <<"\",\"calories\":", NumberText(e.calories), ",\"timestamp\":\"",
       IsoDate(e.timestamp), "T00:00:00.000Z\"}">>

\* the entries of an array, separated by commas
RECURSIVE EntriesText(_)
EntriesText(list) ==
  IF list = <<>> THEN <<>>
  ELSE IF Len(list) = 1 THEN EntryText(list[1])
  ELSE EntryText(Head(list)) \o <<",">> \o EntriesText(Tail(list))

\* JSON.stringify(data) for the data of a response
JSONText(r) ==
  CASE r.kind = "error" -> <<"{\"error\":\"", r.error, "\"}">>
    [] r.kind = "entries" -> <<"[">> \o EntriesText(r.entries) \o <<"]">>
    [] r.kind = "total" -> <<"{\"total\":", ToString(r.total), "}">>
    [] r.kind = "entry" -> EntryText(r.entry[1])
    [] r.kind = "object" -> <<"{}">>
    [] OTHER -> <<>>

\* body.length: the number of UTF-16 units
RECURSIVE StringLength(_)
StringLength(text) ==
  IF text = <<>> THEN 0 ELSE Len(Head(text)) + StringLength(Tail(text))

\* Buffer.byteLength(body): the number of bytes of the text in UTF-8
RECURSIVE ByteLength(_)
ByteLength(text) ==
  IF text = <<>> THEN 0
  ELSE (IF Head(text) = EAcute THEN 2 ELSE Len(Head(text)))
       + ByteLength(Tail(text))

\* no Content-Length header
NoLength == -1

\* res.writeHead(statusCode, headers) and res.end(body)
Wire(status, contentType, contentLength, hasBody, body) ==
  [status |-> status, contentType |-> contentType,
   contentLength |-> contentLength, hasBody |-> hasBody, body |-> body]

sendJSON(r) ==
  LET body == JSONText(r)
  IN  Wire(r.status, "application/json", ByteLength(body), TRUE, body)

\* what the server writes for a response
WireOf(r) ==
  CASE r.kind = "empty" -> Wire(r.status, "", NoLength, FALSE, <<>>)
    [] r.kind = "file" -> Wire(r.status, "text/html", NoLength, TRUE, <<"<html>">>)
    [] r.kind = "none" -> Wire(0, "", NoLength, FALSE, <<>>)
    [] OTHER -> sendJSON(r)

\* the router's try / catch around a handler
Respond(outcome) == IF outcome.thrown THEN InternalError ELSE outcome.res

(***************************************************************************)
(* State.                                                                  *)
(*   file     data.json: whether it exists, whether its text parses, and   *)
(*            the collection it holds                                      *)
(*   now      the clock                                                    *)
(*   issued   the ids given to entries so far, in order                    *)
(*   req/res  the request just handled and its response, until the         *)
(*            response has left the server; node runs one handler at a     *)
(*            time, so there is at most one                                *)
(*   before   the file as it was when that request arrived                 *)
(*   deleted  the ids for which DELETE /api/entries/{id} answered 204      *)
(*   cleared  the days of the clock cleared and not created on since       *)
(*   written  the collection that request's handler gave to writeData      *)
(*   stream   the request whose body parseBody reads, and its promise      *)
(*   page     the browser's page: its form, what was sent, what is shown   *)
(*   inflight the request of each connection while two are open            *)
(*   local    the system's local calendar date, and getTodayDate's text    *)
(*   conn     one request from its arrival to its responses                *)
(*   view     the browser's page while its requests overlap                *)
(***************************************************************************)
VARIABLES file, now, issued, req, res, before, deleted, cleared, written,
          stream, page, inflight, local, conn, view

\* the state of the parts described further down: a request body being
\* read, the browser's page, and the requests in flight at the same time
later == <<local, conn, view>>

parts == <<stream, page, inflight, later>>

vars == <<file, now, issued, req, res, before, deleted, cleared, written, parts>>

\* no body is being read, no page is open, no request is in flight
NoLater == local = <<>> /\ conn = <<>> /\ view = <<>>

NoParts == stream = <<>> /\ page = <<>> /\ inflight = <<>> /\ NoLater

Absent == [exists |-> FALSE, parsable |-> FALSE, entries |-> <<>>]

NoRequest == Request("none", "", 0, NoBody, "")

Idle == req = NoRequest

Init ==
  /\ file = Absent
  /\ now = 0
  /\ issued = <<>>
  /\ req = NoRequest
  /\ res = NoResponse
  /\ before = Absent
  /\ deleted = {}
  /\ cleared = {}
  /\ written = NotSaved
  /\ NoParts

\* the clock advances between two requests
Tick ==
  /\ Idle
  /\ now < MaxClock
  /\ now' = now + 1
  /\ UNCHANGED <<parts, file, issued, req, res, before, deleted, cleared, written>>

\* the response has been written out; the server takes the next request
Sent ==
  /\ ~Idle
  /\ res.kind # "exit"
  /\ req' = NoRequest
  /\ res' = NoResponse
  /\ before' = file
  /\ written' = NotSaved
  /\ UNCHANGED <<parts, file, now, issued, deleted, cleared>>

\* GET /api/entries?date=q
GetEntries(q) ==
  LET o == handleGetEntries(file, q, now)
  IN  /\ Idle
      /\ Route(MethodOf("GET_ENTRIES"), PathOf("GET_ENTRIES", 0)) = "GET_ENTRIES"
      /\ file' = o.file
      /\ written' = o.saved
      /\ res' = Respond(o)
      /\ req' = Request("GET_ENTRIES", q, 0, NoBody, IsoDate(now))
      /\ before' = file
      /\ UNCHANGED <<parts, now, issued, deleted, cleared>>

\* GET /api/total?date=q
GetTotal(q) ==
  LET o == handleGetTotal(file, q, now)
  IN  /\ Idle
      /\ Route(MethodOf("GET_TOTAL"), PathOf("GET_TOTAL", 0)) = "GET_TOTAL"
      /\ file' = o.file
      /\ written' = o.saved
      /\ res' = Respond(o)
      /\ req' = Request("GET_TOTAL", q, 0, NoBody, IsoDate(now))
      /\ before' = file
      /\ UNCHANGED <<parts, now, issued, deleted, cleared>>

\* POST /api/entries; the clock may advance between the handler's two reads
PostEntry(body) ==
  \E t2 \in {t \in {now, now + 1} : t <= MaxClock} :
    LET o == handlePostEntry(file, body, issued, now, now, t2)
        r == Respond(o)
    IN  /\ Idle
        /\ Route(MethodOf("POST"), PathOf("POST", 0)) = "POST"
        /\ r.status = 201 => Len(issued) < MaxEntries
        /\ file' = o.file
        /\ written' = o.saved
        /\ res' = r
        /\ now' = o.clock
        /\ req' = Request("POST", "", 0, body, IsoDate(now))
        /\ before' = file
        /\ issued' = IF r.status = 201 THEN Append(issued, r.entry[1].id) ELSE issued
        /\ cleared' = IF r.status = 201 THEN cleared \ {IsoDate(now)} ELSE cleared
        /\ UNCHANGED <<parts, deleted>>

\* DELETE /api/entries/{id}
DeleteEntryById(id) ==
  LET o == handleDeleteEntryById(file, id, now)
      r == Respond(o)
  IN  /\ Idle
      /\ Route(MethodOf("DELETE_ID"), PathOf("DELETE_ID", id)) = "DELETE_ID"
      /\ file' = o.file
      /\ written' = o.saved
      /\ res' = r
      /\ req' = Request("DELETE_ID", "", id, NoBody, IsoDate(now))
      /\ before' = file
      /\ deleted' = IF r.status = 204 THEN deleted \cup {id} ELSE deleted
      /\ UNCHANGED <<parts, now, issued, cleared>>

\* DELETE /api/entries?date=q
ClearDay(q) ==
  LET o == handleClearDay(file, q, now)
      r == Respond(o)
  IN  /\ Idle
      /\ Route(MethodOf("CLEAR"), PathOf("CLEAR", 0)) = "CLEAR"
      /\ file' = o.file
      /\ written' = o.saved
      /\ res' = r
      /\ req' = Request("CLEAR", q, 0, NoBody, IsoDate(now))
      /\ before' = file
      /\ cleared' = IF r.status = 204
                      THEN cleared \cup ({DateOf(q, now)} \cap Dates)
                    ELSE cleared
      /\ UNCHANGED <<parts, now, issued, deleted>>

\* a request that matches none of the five API routes
Other(method, path) ==
  /\ Idle
  /\ Route(method, path) \in {"NOT_FOUND", "STATIC"}
  /\ \E status \in StaticStatuses :
       res' = IF Route(method, path) = "STATIC"
                THEN serveStaticFile(status)
                ELSE sendError(404, "Not found")
  /\ req' = OtherRequest(method, path, IsoDate(now))
  /\ before' = file
  /\ written' = NotSaved
  /\ UNCHANGED <<parts, file, now, issued, deleted, cleared>>

\* a request whose URL cannot be parsed: new URL throws inside the try
InvalidUrl(method) ==
  /\ Idle
  /\ res' = InternalError
  /\ req' = InvalidUrlRequest(method, IsoDate(now))
  /\ before' = file
  /\ written' = NotSaved
  /\ UNCHANGED <<parts, file, now, issued, deleted, cleared>>

Next ==
  \/ Tick
  \/ Sent
  \/ \E q \in QueryDates : GetEntries(q)
  \/ \E q \in QueryDates : GetTotal(q)
  \/ \E body \in Bodies : PostEntry(body)
  \/ \E id \in RequestIds : DeleteEntryById(id)
  \/ \E q \in QueryDates : ClearDay(q)
  \/ \E method \in Methods, path \in Pathnames : Other(method, path)
  \/ \E method \in Methods : InvalidUrl(method)

Spec == Init /\ [][Next]_vars

(***************************************************************************)
(* The server process stopping during a save.  fs.writeFileSync opens      *)
(* data.json for writing, which empties it, and then writes the text: a    *)
(* process that stops in writeData leaves the file as it was, cut short,   *)
(* or complete.  No response is sent; the next process starts with the     *)
(* file as it was left.                                                    *)
(***************************************************************************)
\* the mutating requests of this instant, each with its handler's outcome
SaveAttempts ==
  {<<Request("POST", "", 0, body, IsoDate(now)),
     handlePostEntry(file, body, issued, now, now, now)>> : body \in Bodies}
  \cup {<<Request("DELETE_ID", "", id, NoBody, IsoDate(now)),
          handleDeleteEntryById(file, id, now)>> : id \in RequestIds}
  \cup {<<Request("CLEAR", q, 0, NoBody, IsoDate(now)),
          handleClearDay(file, q, now)>> : q \in QueryDates}

CrashDuringSave ==
  /\ Idle
  /\ \E a \in SaveAttempts :
       LET r == a[1]
           o == a[2]
       IN  /\ o.saved.done
           /\ r.op = "POST" => Len(issued) < MaxEntries
           /\ \E left \in {readDataFile(file), Truncated, o.file} :
                /\ file' = left
                /\ deleted' = IF r.op = "DELETE_ID" /\ left = o.file
                                THEN deleted \cup {r.id} ELSE deleted
                /\ cleared' = IF r.op = "CLEAR" /\ left = o.file
                                THEN cleared \cup ({DateOf(r.q, now)} \cap Dates)
                              ELSE IF r.op = "POST" /\ left = o.file
                                THEN cleared \ {IsoDate(now)}
                              ELSE cleared
           /\ issued' = IF r.op = "POST"
                          THEN Append(issued, randomUUID(issued)) ELSE issued
           /\ req' = r
           /\ res' = NoResponse
           /\ before' = file
           /\ written' = o.saved
           /\ UNCHANGED <<parts, now>>

NextCrash == Next \/ CrashDuringSave

SpecCrash == Init /\ [][NextCrash]_vars

(***************************************************************************)
(* The flat-array server.  Its store is one object whose entries property  *)
(* is meant to be an array of every entry, whatever its date.  A file is   *)
(* [exists, parsable, shape, entries]; shape is what the entries property  *)
(* holds: "object" for {}, "array", or "none" when the property is absent. *)
(***************************************************************************)
FlatFile(shape, list) ==
  [exists |-> TRUE, parsable |-> TRUE, shape |-> shape, entries |-> list]

FlatAbsent == [exists |-> FALSE, parsable |-> FALSE, shape |-> "none", entries |-> <<>>]

\* { entries: {} }
FlatInitial == [shape |-> "object", entries |-> <<>>]

\* a data.json that holds {}
FlatBare == FlatFile("none", <<>>)

flatWriteData(data) == FlatFile(data.shape, JSONList(data.entries))

\* readData(): the object it returns, and the file it leaves behind
flatReadData(f) ==
  IF f.exists /\ f.parsable THEN [shape |-> f.shape, entries |-> f.entries]
  ELSE FlatInitial

flatReadDataFile(f) ==
  IF f.exists /\ f.parsable THEN f ELSE flatWriteData(FlatInitial)

\* if (!fs.existsSync(DATA_FILE)) writeData({ entries: {} })
flatStartup(f) == IF f.exists THEN f ELSE flatWriteData(FlatInitial)

\* sendJSON(res, 200, {}): the body is an object, not an array
sendObject == Response("object", 200, "", <<>>, 0, <<>>)

\* the process is ended by a rejection nobody handles; nothing is sent
ProcessExit == Response("exit", 0, "", <<>>, 0, <<>>)

\* GET /api/entries: data.entries || [] sent as it is
flatGetEntries(f, q, t) ==
  LET data == flatReadData(f)
  IN  IF data.shape = "object"
        THEN Outcome(flatReadDataFile(f), sendObject, t)
        ELSE Outcome(flatReadDataFile(f), sendEntries(data.entries), t)

\* GET /api/total: entries.reduce over data.entries || []
flatGetTotal(f, q, t) ==
  LET data == flatReadData(f)
  IN  IF data.shape = "object"
        THEN Throw(flatReadDataFile(f), t)   \* entries.reduce is not a function
        ELSE Outcome(flatReadDataFile(f), sendTotal(Total(data.entries)), t)

\* !body.name || typeof body.name !== 'string' || body.name.trim() === ''
FlatNameMissing(name) ==
  \/ TypeOf(name) # "string"
  \/ Trim(name.s) = <<>>

\* Number(body.calories): the number, or the marker "nan"
ToNumber(v) ==
  CASE v.t \in {"number", "infinity"} -> v
    [] v.t = "boolean" -> Num(v.n)
    [] v.t = "null" -> Num(0)
    [] v.t = "string" /\ Trim(v.s) = <<>> -> Num(0)
    [] OTHER -> [t |-> "nan", n |-> 0, s |-> <<>>]

\* < in place of <=: zero is let through
FlatCaloriesNegative(calories) == calories.t # "number" \/ calories.n < 0

\* !Number.isFinite(calories) || calories <= 0
FlatCaloriesRejected(calories) == calories.t # "number" \/ calories.n <= 0

flatPostEntry(f, body, ids, t) ==
  IF parseBodyRejects(body) THEN Outcome(f, sendError(400, "Invalid JSON"), t)
  ELSE IF body.text = "json" /\ body.kind = "null" THEN Throw(f, t)
  ELSE IF FlatNameMissing(NameOf(body))
    THEN Outcome(f, sendError(400, "Name is required"), t)
  ELSE IF CaloriesMissing(CaloriesOf(body))
    THEN Outcome(f, sendError(400, "Calories must be a positive number"), t)
  ELSE IF FlatCaloriesRejected(ToNumber(CaloriesOf(body)))
    THEN Outcome(f, sendError(400, "Calories must be a positive number"), t)
  ELSE
    LET entry == [id |-> randomUUID(ids),
                  name |-> Trim(NameOf(body).s),
                  calories |-> ToNumber(CaloriesOf(body)),
                  timestamp |-> t]
        data == flatReadData(f)
    IN  IF data.shape = "object"
          THEN Throw(flatReadDataFile(f), t)   \* data.entries.push is not a function
          ELSE Outcome(flatWriteData([shape |-> "array",
                                      entries |-> Append(data.entries, entry)]),
                       sendEntry(entry), t)

flatDeleteEntryById(f, id, t) ==
  LET data == flatReadData(f)
      idx == FindIndex(data.entries, id)
  IN  IF data.shape = "object"
        THEN Throw(flatReadDataFile(f), t)   \* entries.findIndex is not a function
      ELSE IF idx = 0
        THEN Outcome(flatReadDataFile(f), sendError(404, "Entry not found"), t)
      ELSE Outcome(flatWriteData([shape |-> "array",
                                  entries |-> Splice(data.entries, idx)]),
                   sendEmpty, t)

\* DELETE /api/entries: data.entries = [], whatever the date
flatClearDay(f, q, t) ==
  Outcome(flatWriteData([shape |-> "array", entries |-> <<>>]), sendEmpty, t)

\* the route tests of the flat-array server
FlatRoute(method, path) ==
  IF ~IsApiPath(path) THEN "STATIC"
  ELSE IF path = TotalPath /\ method = "GET" THEN "GET_TOTAL"
  ELSE IF path = EntriesPath \/ IsEntryPath(path)
    THEN CASE method = "GET" /\ Len(path) <= 2 -> "GET_ENTRIES"
           [] method = "POST" /\ Len(path) <= 2 -> "POST"
           [] method = "DELETE" /\ Len(path) > 2 -> "DELETE_ID"
           [] method = "DELETE" /\ Len(path) <= 2 -> "CLEAR"
           [] OTHER -> "NOT_ALLOWED"
  ELSE "NOT_FOUND"

FlatInit ==
  /\ file \in {flatStartup(FlatAbsent), flatStartup(FlatBare)}
  /\ now = 0
  /\ issued = <<>>
  /\ req = NoRequest
  /\ res = NoResponse
  /\ before = file
  /\ deleted = {}
  /\ cleared = {}
  /\ written = NotSaved
  /\ NoParts

\* one request of the flat-array server, from routing to response
FlatRequest(r, o) ==
  /\ Idle
  /\ FlatRoute(r.method, r.path) = r.op
  /\ file' = o.file
  /\ res' = Respond(o)
  /\ req' = r
  /\ before' = file
  /\ UNCHANGED <<parts, now, deleted, cleared, written>>

FlatGetEntries(q) ==
  /\ FlatRequest(Request("GET_ENTRIES", q, 0, NoBody, IsoDate(now)),
                 flatGetEntries(file, q, now))
  /\ UNCHANGED issued

FlatGetTotal(q) ==
  /\ FlatRequest(Request("GET_TOTAL", q, 0, NoBody, IsoDate(now)),
                 flatGetTotal(file, q, now))
  /\ UNCHANGED issued

FlatPostEntry(body) ==
  LET o == flatPostEntry(file, body, issued, now)
  IN  /\ o.res.status = 201 => Len(issued) < MaxEntries
      /\ FlatRequest(Request("POST", "", 0, body, IsoDate(now)), o)
      /\ issued' = IF o.res.status = 201
                     THEN Append(issued, o.res.entry[1].id) ELSE issued

FlatDeleteEntryById(id) ==
  /\ FlatRequest(Request("DELETE_ID", "", id, NoBody, IsoDate(now)),
                 flatDeleteEntryById(file, id, now))
  /\ UNCHANGED issued

FlatClearDay(q) ==
  /\ FlatRequest(Request("CLEAR", q, 0, NoBody, IsoDate(now)),
                 flatClearDay(file, q, now))
  /\ UNCHANGED issued

\* 405, 404 and the static files
FlatOther(method, path) ==
  /\ FlatRoute(method, path) \in {"NOT_ALLOWED", "NOT_FOUND", "STATIC"}
  /\ \E status \in StaticStatuses :
       FlatRequest(OtherRequest(method, path, IsoDate(now)),
                   Outcome(file,
                           CASE FlatRoute(method, path) = "NOT_ALLOWED" ->
                                  sendError(405, "Method not allowed")
                             [] FlatRoute(method, path) = "NOT_FOUND" ->
                                  sendError(404, "Not found")
                             [] OTHER ->
                                  IF status = 200 THEN serveStaticFile(200)
                                  ELSE sendError(404, "File not found"),
                           now))
  /\ UNCHANGED issued

\* new URL(req.url, base) is outside the try: the async handler's promise
\* rejects with nobody to handle it.  Node ends the process, or, before
\* version 15, warns and leaves the request without a response.
FlatInvalidUrl(method) ==
  /\ Idle
  /\ res' \in {ProcessExit, NoResponse}
  /\ req' = InvalidUrlRequest(method, IsoDate(now))
  /\ before' = file
  /\ UNCHANGED <<parts, file, now, issued, deleted, cleared, written>>

FlatNext ==
  \/ Tick
  \/ Sent
  \/ \E q \in QueryDates : FlatGetEntries(q)
  \/ \E q \in QueryDates : FlatGetTotal(q)
  \/ \E body \in Bodies : FlatPostEntry(body)
  \/ \E id \in RequestIds : FlatDeleteEntryById(id)
  \/ \E q \in QueryDates : FlatClearDay(q)
  \/ \E method \in Methods, path \in Pathnames : FlatOther(method, path)
  \/ \E method \in Methods : FlatInvalidUrl(method)

SpecFlat == FlatInit /\ [][FlatNext]_vars

(***************************************************************************)
(* parseBody(req).  The request is an EventEmitter: it emits 'data' with a *)
(* chunk, 'end' and 'error' in whatever order its source produces them.    *)
(* A chunk is a Buffer, a sequence of units of the body's bytes: a run of  *)
(* ASCII bytes, taken whole, or one byte of the two that encode EAcute.    *)
(* A string is a sequence of pieces, as in the texts above.                *)
(***************************************************************************)
\* the state of every other part while one part is observed alone
server == <<file, now, issued, req, res, before, deleted, cleared, written>>

ServerAtRest ==
  /\ file = Absent
  /\ now = 0
  /\ issued = <<>>
  /\ req = NoRequest
  /\ res = NoResponse
  /\ before = Absent
  /\ deleted = {}
  /\ cleared = {}
  /\ written = NotSaved

\* the runs of ASCII bytes around a name
NameOpen == "{\"name\":\""

NameClose == "\"}"

\* the two bytes of EAcute in UTF-8
LeadByte == "0xC3"

TrailByte == "0xA9"

\* U+FFFD, which decoding puts in place of bytes that encode nothing
Replacement == "U+FFFD"

Units == {NameOpen, LeadByte, TrailByte, NameClose}

\* the chunks a source can deliver: one unit or two
Chunks == {<<u>> : u \in Units} \cup {<<u, v>> : u \in Units, v \in Units}

StreamErrors == {"socket hang up"}

\* chunk.toString(), which `body += chunk` applies to every chunk by itself
RECURSIVE Decode(_)
Decode(chunk) ==
  IF chunk = <<>> THEN <<>>
  ELSE IF Len(chunk) >= 2 /\ chunk[1] = LeadByte /\ chunk[2] = TrailByte
    THEN <<EAcute>> \o Decode(SubSeq(chunk, 3, Len(chunk)))
  ELSE IF Head(chunk) \in {LeadByte, TrailByte}
    THEN <<Replacement>> \o Decode(Tail(chunk))
  ELSE <<Head(chunk)>> \o Decode(Tail(chunk))

\* JSON.parse(body) succeeds: here, on an object with a name
IsJSON(text) ==
  /\ Len(text) >= 2
  /\ text[1] = NameOpen
  /\ text[Len(text)] = NameClose
  /\ \A i \in 2..(Len(text) - 1) : text[i] \notin {NameOpen, NameClose}

\* the promise parseBody returns
Pending == [state |-> "pending", keys |-> {}, name |-> <<>>, error |-> ""]

Resolved(keys, name) ==
  [state |-> "resolved", keys |-> keys, name |-> name, error |-> ""]

Rejected(error) ==
  [state |-> "rejected", keys |-> {}, name |-> <<>>, error |-> error]

\* JSON.parse(body)
JSONParse(text) == Resolved({"name"}, SubSeq(text, 2, Len(text) - 1))

\* a promise that could be settled again
SettleAgain(promise, outcome) == outcome

\* resolve / reject: only the first call settles the promise
Settle(promise, outcome) ==
  IF promise.state = "pending" THEN outcome ELSE promise

\* the 'end' listener: resolve(body ? JSON.parse(body) : {}), or reject
onEnd(body) ==
  IF body = <<>> THEN Resolved({}, <<>>)
  ELSE IF IsJSON(body) THEN JSONParse(body)
  ELSE Rejected("Invalid JSON")

\* received, atEnd, ended, errored and last record what was emitted
NewStream ==
  [body |-> <<>>, promise |-> Pending, events |-> 0, received |-> <<>>,
   atEnd |-> <<>>, ended |-> FALSE, errored |-> FALSE, last |-> ""]

ParseInit ==
  /\ ServerAtRest
  /\ page = <<>>
  /\ inflight = <<>>
  /\ NoLater
  /\ stream = NewStream

\* req.on('data', chunk => { body += chunk; })
EmitData(chunk) ==
  /\ stream.events < MaxEvents
  /\ stream' = [stream EXCEPT !.body = @ \o Decode(chunk),
                               !.received = @ \o chunk,
                               !.events = @ + 1,
                               !.last = "data"]
  /\ UNCHANGED <<server, page, inflight, later>>

\* req.on('end', ...)
EmitEnd ==
  /\ stream.events < MaxEvents
  /\ stream' = [stream EXCEPT !.promise = Settle(@, onEnd(stream.body)),
                               !.atEnd = IF stream.ended THEN @ ELSE stream.received,
                               !.ended = TRUE,
                               !.events = @ + 1,
                               !.last = "end"]
  /\ UNCHANGED <<server, page, inflight, later>>

\* req.on('error', reject)
EmitError(e) ==
  /\ stream.events < MaxEvents
  /\ stream' = [stream EXCEPT !.promise = Settle(@, Rejected(e)),
                               !.errored = TRUE,
                               !.events = @ + 1,
                               !.last = e]
  /\ UNCHANGED <<server, page, inflight, later>>

ParseNext ==
  \/ \E chunk \in Chunks : EmitData(chunk)
  \/ EmitEnd
  \/ \E e \in StreamErrors : EmitError(e)

SpecParse == ParseInit /\ [][ParseNext]_vars

(***************************************************************************)
(* The browser client (public/app.js) in front of the per-date-map server. *)
(* The browser's calendar day is tz days away from the server's UTC day at *)
(* the same instant.  The value of a form field is a sequence of           *)
(* characters; a number is held in tenths where it need not be whole.      *)
(***************************************************************************)
\* how far the local day can be from the UTC day
Offsets == {-1, 0, 1}

\* the local day before the first day of the clock
DayBefore == "2023-12-31"

\* todayStr(): the date from getFullYear / getMonth / getDate
todayStr(t, tz) == IF t + tz < 0 THEN DayBefore ELSE IsoDate(t + tz)

\* what the user can type in the food name field
FormNames == {<<>>, <<" ", " ">>, <<" ", EAcute, " ">>}

\* what the user can type in the calories field
FormCalories ==
  {<<>>, <<"0">>, <<"-", "1">>, <<"1", ".", "5">>, <<"a", "b", "c">>,
   <<"1">>, <<" ", "2">>}

NaN == [nan |-> TRUE, tenths |-> 0]

Tenths(k) == [nan |-> FALSE, tenths |-> k]

\* the value of one digit character
Digit(c) ==
  CASE c = "0" -> 0 [] c = "1" -> 1 [] c = "2" -> 2 [] c = "5" -> 5
    [] OTHER -> -1

\* Number(s) of a string without surrounding spaces
ToNumberOfString(s) ==
  IF s = <<>> THEN Tenths(0)
  ELSE IF Len(s) = 1 /\ Digit(s[1]) >= 0 THEN Tenths(10 * Digit(s[1]))
  ELSE IF Len(s) = 2 /\ s[1] = "-" /\ Digit(s[2]) >= 0
    THEN Tenths(0 - 10 * Digit(s[2]))
  ELSE IF Len(s) = 3 /\ Digit(s[1]) >= 0 /\ s[2] = "." /\ Digit(s[3]) >= 0
    THEN Tenths(10 * Digit(s[1]) + Digit(s[3]))
  ELSE NaN

\* Number.isInteger(v)
IsInteger(v) == ~v.nan /\ v.tenths % 10 = 0

\* the form's value of an invalid form
NoData == [valid |-> FALSE, name |-> <<>>, calories |-> 0]

\* calories < 0 in place of calories < 1
validateFormAllowsZero(nameRaw, caloriesRaw) ==
  LET name == Trim(nameRaw)
      calRaw == Trim(caloriesRaw)
      calories == ToNumberOfString(calRaw)
  IN  IF name = <<>> THEN NoData
      ELSE IF calRaw = <<>> \/ ~IsInteger(calories) \/ calories.tenths < 0
        THEN NoData
      ELSE [valid |-> TRUE, name |-> name, calories |-> calories.tenths \div 10]

\* validateForm(): { name, calories } or null
validateForm(nameRaw, caloriesRaw) ==
  LET name == Trim(nameRaw)
      calRaw == Trim(caloriesRaw)
      calories == ToNumberOfString(calRaw)
  IN  IF name = <<>> THEN NoData
      ELSE IF calRaw = <<>> \/ ~IsInteger(calories) \/ calories.tenths < 10
        THEN NoData
      ELSE [valid |-> TRUE, name |-> name, calories |-> calories.tenths \div 10]

\* JSON.stringify({ name, calories }) as the server parses it
postBody(data) == Body("json", "object", Str(data.name), Num(data.calories))

\* one step of [...entries].sort((a, b) => b.timestamp - a.timestamp)
RECURSIVE InsertByTimestamp(_, _)
InsertByTimestamp(sorted, e) ==
  IF sorted = <<>> THEN <<e>>
  ELSE IF Head(sorted).timestamp < e.timestamp THEN <<e>> \o sorted
  ELSE <<Head(sorted)>> \o InsertByTimestamp(Tail(sorted), e)

\* the entries in the order renderEntries shows them: newest first
RECURSIVE renderEntries(_)
renderEntries(entries) ==
  IF entries = <<>> THEN <<>>
  ELSE InsertByTimestamp(renderEntries(SubSeq(entries, 1, Len(entries) - 1)),
                         entries[Len(entries)])

\* form and sent record the last submission, posted the entry of the last
\* 201, refreshed that a refresh has rendered since
NewPage(tz) ==
  [tz |-> tz, phase |-> "idle", form |-> [name |-> <<>>, calories |-> <<>>],
   sent |-> FALSE, posted |-> <<>>, refreshed |-> FALSE, list |-> <<>>,
   total |-> 0]

PageInit ==
  /\ ServerAtRest
  /\ stream = <<>>
  /\ inflight = <<>>
  /\ NoLater
  /\ \E tz \in Offsets : page = NewPage(tz)

\* the submit listener when validateForm() returns null
SubmitInvalid(nameRaw, caloriesRaw) ==
  /\ page.phase = "idle"
  /\ ~validateForm(nameRaw, caloriesRaw).valid
  /\ page' = [page EXCEPT !.form = [name |-> nameRaw, calories |-> caloriesRaw],
                          !.sent = FALSE,
                          !.posted = <<>>,
                          !.refreshed = FALSE]
  /\ UNCHANGED <<server, stream, inflight, later>>

\* the submit listener up to `await postEntry(data.name, data.calories)`
SubmitValid(nameRaw, caloriesRaw) ==
  LET data == validateForm(nameRaw, caloriesRaw)
      o == handlePostEntry(file, postBody(data), issued, now, now, now)
      r == Respond(o)
  IN  /\ page.phase = "idle"
      /\ data.valid
      /\ r.status = 201 => Len(issued) < MaxEntries
      /\ file' = o.file
      /\ issued' = IF r.status = 201 THEN Append(issued, r.entry[1].id) ELSE issued
      /\ page' = [page EXCEPT !.form = [name |-> nameRaw, calories |-> caloriesRaw],
                              !.sent = TRUE,
                              !.posted = IF r.status = 201 THEN r.entry ELSE <<>>,
                              !.refreshed = FALSE,
                              !.phase = IF r.status = 201 THEN "posted" ELSE "idle"]
      /\ UNCHANGED <<now, req, res, before, deleted, cleared, written, stream,
                     inflight, later>>

\* refresh(): both fetches with ?date=todayStr(), then the two renders
Refresh ==
  LET date == todayStr(now, page.tz)
      entries == Respond(handleGetEntries(file, date, now))
      totalData == Respond(handleGetTotal(file, date, now))
      ok == entries.status = 200 /\ totalData.status = 200
  IN  /\ file' = readDataFile(file)
      /\ page' = IF ok
                   THEN [page EXCEPT !.list = renderEntries(entries.entries),
                                     !.total = totalData.total,
                                     !.refreshed = page.phase = "posted",
                                     !.phase = "idle"]
                   ELSE [page EXCEPT !.phase = "idle"]
      /\ UNCHANGED <<now, issued, req, res, before, deleted, cleared, written,
                     stream, inflight, later>>

\* time passes in front of the page
PageTick ==
  /\ now < MaxClock
  /\ now' = now + 1
  /\ UNCHANGED <<file, issued, req, res, before, deleted, cleared, written,
                 parts>>

PageNext ==
  \/ \E n \in FormNames, c \in FormCalories : SubmitInvalid(n, c)
  \/ \E n \in FormNames, c \in FormCalories : SubmitValid(n, c)
  \/ Refresh
  \/ PageTick

SpecPage == PageInit /\ [][PageNext]_vars

(***************************************************************************)
(* Requests in flight at the same time in the per-date-map server.  The    *)
(* request listener is an async function: it runs until its first await    *)
(* and is resumed when the awaited promise settles.  The only await of a   *)
(* handler is `await parseBody(req)` of POST; readData and writeData are   *)
(* readFileSync and writeFileSync.  Two connections are open; a slot holds *)
(* the request of one connection.                                          *)
(***************************************************************************)
Slots == 1..2

\* the requests the two connections send
ConcRequests ==
  {Request("GET_ENTRIES", "", 0, NoBody, IsoDate(0)),
   Request("GET_TOTAL", "", 0, NoBody, IsoDate(0)),
   Request("POST", "", 0, Body("json", "object", ValidName, Num(1)), IsoDate(0)),
   Request("POST", "", 0, Body("empty", "none", Undefined, Undefined), IsoDate(0)),
   Request("CLEAR", "", 0, NoBody, IsoDate(0))}
  \cup {Request("DELETE_ID", "", id, NoBody, IsoDate(0)) : id \in 1..MaxEntries}

\* seen is the file when the request arrived, o the outcome a suspended
\* handler holds, ids the ids given out before the handler ran, seq the
\* handler's place in the order of completion, overlap whether another
\* request was in flight with it
FreeSlot ==
  [phase |-> "free", r |-> NoRequest, seen |-> Absent,
   o |-> Outcome(Absent, NoResponse, 0), ids |-> <<>>, res |-> NoResponse,
   seq |-> 0, overlap |-> FALSE]

\* the handler the router gives the request to
Execute(r, f, ids, t) ==
  CASE r.op = "GET_ENTRIES" -> handleGetEntries(f, r.q, t)
    [] r.op = "GET_TOTAL" -> handleGetTotal(f, r.q, t)
    [] r.op = "POST" -> handlePostEntry(f, r.body, ids, t, t, t)
    [] r.op = "DELETE_ID" -> handleDeleteEntryById(f, r.id, t)
    [] r.op = "CLEAR" -> handleClearDay(f, r.q, t)

\* readData() hoisted above `await parseBody(req)`
LoadedAtArrival(slot, f) == slot.seen

\* the file readData() reads: the file as it is when the handler runs
LoadedFile(slot, f) == f

\* an await between readData() and writeData(data)
AwaitBeforeSave(op) == op \in {"POST", "DELETE_ID", "CLEAR"}

\* no handler awaits between readData() and writeData(data)
SuspendsBeforeSave(op) == FALSE

InFlight(slot) == slot.phase \in {"body", "loaded"}

Completed == {i \in Slots : inflight[i].phase = "done"}

ConcInit ==
  /\ ServerAtRest
  /\ stream = <<>>
  /\ page = <<>>
  /\ NoLater
  /\ inflight = [i \in Slots |-> FreeSlot]

\* the handler of slot i runs from readData() to its response, or to the
\* await before its save; slots are the slots as the handler finds them
RunHandler(i, slot, slots) ==
  LET o == Execute(slot.r, LoadedFile(slot, file), issued, now)
      r == Respond(o)
      suspends == SuspendsBeforeSave(slot.r.op) /\ o.saved.done
      ran == IF suspends
               THEN [slot EXCEPT !.phase = "loaded", !.o = o, !.ids = issued]
               ELSE [slot EXCEPT !.phase = "done", !.o = o, !.ids = issued,
                                 !.res = r,
                                 !.seq = Cardinality(Completed) + 1]
  IN  /\ file' = IF suspends THEN readDataFile(file) ELSE o.file
      /\ issued' = IF r.status = 201 THEN Append(issued, r.entry[1].id) ELSE issued
      /\ inflight' = [slots EXCEPT ![i] = ran]

\* a request arrives on connection i: a POST awaits its body, any other
\* request is handled at once
Arrive(i, r) ==
  LET other == inflight[3 - i]
      slot == [FreeSlot EXCEPT !.r = r, !.seen = file,
                               !.overlap = InFlight(other)]
      met == [inflight EXCEPT ![3 - i].overlap = @ \/ InFlight(other)]
      posts == Cardinality({j \in Slots : /\ inflight[j].phase = "body"
                                          /\ inflight[j].r.body.text = "json"})
  IN  /\ inflight[i].phase = "free"
      /\ (r.op = "POST" /\ r.body.text = "json") =>
           Len(issued) + posts < MaxEntries
      /\ IF r.op = "POST"
           THEN /\ inflight' = [met EXCEPT ![i] = [slot EXCEPT !.phase = "body"]]
                /\ UNCHANGED <<file, issued>>
           ELSE RunHandler(i, slot, met)
      /\ UNCHANGED <<now, req, res, before, deleted, cleared, written, stream,
                     page, later>>

\* the promise the handler of slot i awaits has settled: the handler goes on
Continue(i) ==
  LET slot == inflight[i]
  IN  /\ InFlight(slot)
      /\ IF slot.phase = "body"
           THEN RunHandler(i, slot, inflight)
           ELSE /\ file' = slot.o.file
                /\ inflight' = [inflight EXCEPT ![i] =
                     [slot EXCEPT !.phase = "done", !.res = Respond(slot.o),
                                  !.seq = Cardinality(Completed) + 1]]
                /\ UNCHANGED issued
      /\ UNCHANGED <<now, req, res, before, deleted, cleared, written, stream,
                     page, later>>

\* every request in flight has been answered; the connections send anew
Collect ==
  /\ Completed # {}
  /\ \A i \in Slots : inflight[i].phase \in {"free", "done"}
  /\ inflight' = [i \in Slots |-> FreeSlot]
  /\ before' = file
  /\ UNCHANGED <<file, now, issued, req, res, deleted, cleared, written, stream,
                 page, later>>

ConcNext ==
  \/ \E i \in Slots, r \in ConcRequests : Arrive(i, r)
  \/ \E i \in Slots : Continue(i)
  \/ Collect

SpecConc == ConcInit /\ [][ConcNext]_vars

(***************************************************************************)
(* A save that fails: writeFileSync throws (the disk is full, the file is  *)
(* read-only).  The file is left as it was, or cut short when the write    *)
(* had begun.  The exception leaves the handler and reaches the router's   *)
(* catch.                                                                  *)
(***************************************************************************)
\* writeData(data) threw
SaveFailed == [done |-> FALSE, entries |-> <<>>, failed |-> TRUE]

\* sendJSON / sendEmpty moved above writeData(data)
ResponseBeforeSave(op) == FALSE

\* in the three mutating handlers writeData(data) comes before the response
ResponseAfterSave(op) == TRUE

SaveFails ==
  /\ Idle
  /\ \E a \in SaveAttempts :
       LET r == a[1]
           o == a[2]
       IN  /\ o.saved.done
           /\ r.op = "POST" => Len(issued) < MaxEntries
           /\ file' \in {readDataFile(file), Truncated}
           /\ req' = r
           /\ res' = IF ResponseAfterSave(r.op) THEN InternalError ELSE o.res
           /\ before' = file
           /\ written' = SaveFailed
           /\ UNCHANGED <<parts, now, issued, deleted, cleared>>

NextSave == Next \/ SaveFails

SpecSave == Init /\ [][NextSave]_vars

(***************************************************************************)
(* One API request from its arrival to its responses.  The listener gives  *)
(* the request to its handler inside try / catch; a POST awaits            *)
(* parseBody(req), whose promise settles on the request's 'end' or 'error' *)
(* and whose continuation the event loop then runs.  answers are the       *)
(* responses written to the request, in order.                             *)
(***************************************************************************)
AnswerRequests ==
  ConcRequests
  \cup {Request("POST", "", 0, Body("json", "null", Undefined, Undefined), IsoDate(0)),
        Request("POST", "", 0, Body("malformed", "none", Undefined, Undefined), IsoDate(0)),
        Request("GET_ENTRIES", ProtoKey, 0, NoBody, IsoDate(0))}

NoConn ==
  [phase |-> "idle", r |-> NoRequest, ended |-> FALSE, errored |-> FALSE,
   promise |-> Pending, answers |-> <<>>]

\* what the handler wrote before it returned or threw
HandlerWrites(o) == IF o.res.kind = "none" THEN <<>> ELSE <<o.res>>

\* the 500 written after the handler whether or not it threw
ListenerWritesAlways(o) == HandlerWrites(o) \o <<InternalError>>

\* try { handler } catch { sendJSON(res, 500, ...) }
ListenerWrites(o) ==
  HandlerWrites(o) \o (IF o.thrown THEN <<InternalError>> ELSE <<>>)

\* the body the handler goes on with: a rejected promise takes the catch of
\* handlePostEntry, as text that is not JSON does
BodyAfter(c) ==
  IF c.promise.state = "rejected"
    THEN Body("malformed", "none", Undefined, Undefined)
    ELSE c.r.body

AnswerInit ==
  /\ ServerAtRest
  /\ stream = <<>>
  /\ page = <<>>
  /\ inflight = <<>>
  /\ local = <<>>
  /\ view = <<>>
  /\ conn = NoConn

\* the listener runs the handler of c.r to its end
Handle(c, body) ==
  LET o == Execute([c.r EXCEPT !.body = body], file, issued, now)
      r == Respond(o)
  IN  /\ file' = o.file
      /\ issued' = IF r.status = 201 THEN Append(issued, r.entry[1].id) ELSE issued
      /\ conn' = [c EXCEPT !.phase = "answered",
                           !.answers = @ \o ListenerWrites(o)]

\* a request arrives: a POST awaits its body, any other is handled at once
Receive(r) ==
  LET c == [NoConn EXCEPT !.r = r]
  IN  /\ conn.phase = "idle"
      /\ (r.op = "POST" /\ r.body.kind = "object") => Len(issued) < MaxEntries
      /\ IF r.op = "POST"
           THEN /\ conn' = [c EXCEPT !.phase = "awaiting"]
                /\ UNCHANGED <<file, issued>>
           ELSE Handle(c, r.body)
      /\ UNCHANGED <<now, req, res, before, deleted, cleared, written, stream,
                     page, inflight, local, view>>

\* the request emits 'end'
BodyEnds ==
  LET outcome == IF parseBodyRejects(conn.r.body)
                   THEN Rejected("Invalid JSON") ELSE Resolved({}, <<>>)
  IN  /\ conn.r.op = "POST"
      /\ ~conn.ended
      /\ conn' = [conn EXCEPT !.ended = TRUE,
                              !.promise = Settle(@, outcome),
                              !.phase = IF @ = "awaiting" THEN "ready" ELSE @]
      /\ UNCHANGED <<server, stream, page, inflight, local, view>>

\* the request emits 'error'
BodyErrors ==
  /\ conn.r.op = "POST"
  /\ ~conn.errored
  /\ conn' = [conn EXCEPT !.errored = TRUE,
                          !.promise = Settle(@, Rejected("socket hang up")),
                          !.phase = IF @ = "awaiting" THEN "ready" ELSE @]
  /\ UNCHANGED <<server, stream, page, inflight, local, view>>

\* the event loop runs the continuation of `await parseBody(req)`
Resume ==
  /\ conn.phase = "ready"
  /\ Handle(conn, BodyAfter(conn))
  /\ UNCHANGED <<now, req, res, before, deleted, cleared, written, stream,
                 page, inflight, local, view>>

\* the connection takes its next request
Close ==
  /\ conn.phase = "answered"
  /\ conn' = NoConn
  /\ UNCHANGED <<server, stream, page, inflight, local, view>>

AnswerNext ==
  \/ \E r \in AnswerRequests : Receive(r)
  \/ BodyEnds
  \/ BodyErrors
  \/ Resume
  \/ Close

\* a continuation whose promise has settled is run
SpecAnswer == AnswerInit /\ [][AnswerNext]_vars /\ WF_vars(Resume)

(***************************************************************************)
(* The browser's page while its requests overlap.  Every add, delete and   *)
(* clear ends with refresh(), whose two GETs the server answers at some    *)
(* moment and whose responses reach the page at a later one; responses of  *)
(* different refreshes arrive in any order.  The submit button is disabled *)
(* until its handler ends, and so is the clear button; the delete buttons  *)
(* of the rendered entries are not.  The page and the server agree on the  *)
(* date.                                                                   *)
(***************************************************************************)
\* the refreshes the page can have in flight at once
MaxRefreshes == 2

\* a refresh whose GETs the server has not handled yet
SentRefresh(origin) ==
  [origin |-> origin, phase |-> "sent", entries |-> <<>>, total |-> 0]

Removed(seq, i) == SubSeq(seq, 1, i - 1) \o SubSeq(seq, i + 1, Len(seq))

Origins(v) == {v.refreshes[i].origin : i \in 1..Len(v.refreshes)}

ViewInit ==
  /\ ServerAtRest
  /\ stream = <<>>
  /\ page = <<>>
  /\ inflight = <<>>
  /\ local = <<>>
  /\ conn = <<>>
  /\ view = [list |-> <<>>, total |-> 0, refreshes |-> <<SentRefresh("boot")>>]

\* a mutation the server has answered with success is followed by refresh()
Refreshing(r, origin) ==
  IF r.status \in {201, 204}
    THEN [view EXCEPT !.refreshes = Append(@, SentRefresh(origin))]
    ELSE view

\* the submit listener: postEntry, then refresh()
ViewAdd ==
  LET data == validateForm(ValidName.s, <<"1">>)
      o == handlePostEntry(file, postBody(data), issued, now, now, now)
      r == Respond(o)
  IN  /\ "add" \notin Origins(view)
      /\ Len(view.refreshes) < MaxRefreshes
      /\ Len(issued) < MaxEntries
      /\ file' = o.file
      /\ issued' = IF r.status = 201 THEN Append(issued, r.entry[1].id) ELSE issued
      /\ view' = Refreshing(r, "add")
      /\ UNCHANGED <<now, req, res, before, deleted, cleared, written, stream,
                     page, inflight, local, conn>>

\* onDelete(entry.id) of a rendered entry: deleteEntry, then refresh()
ViewDelete(i) ==
  LET o == handleDeleteEntryById(file, view.list[i].id, now)
  IN  /\ Len(view.refreshes) < MaxRefreshes
      /\ file' = o.file
      /\ view' = Refreshing(Respond(o), "delete")
      /\ UNCHANGED <<now, issued, req, res, before, deleted, cleared, written,
                     stream, page, inflight, local, conn>>

\* the clear button: clearDay, then refresh()
ViewClear ==
  LET o == handleClearDay(file, todayStr(now, 0), now)
  IN  /\ "clear" \notin Origins(view)
      /\ Len(view.refreshes) < MaxRefreshes
      /\ file' = o.file
      /\ view' = Refreshing(Respond(o), "clear")
      /\ UNCHANGED <<now, issued, req, res, before, deleted, cleared, written,
                     stream, page, inflight, local, conn>>

\* the server handles the two GETs of refresh i
Fetch(i) ==
  LET date == todayStr(now, 0)
      entries == Respond(handleGetEntries(file, date, now))
      totalData == Respond(handleGetTotal(file, date, now))
  IN  /\ view.refreshes[i].phase = "sent"
      /\ file' = readDataFile(file)
      /\ view' = [view EXCEPT !.refreshes[i] =
                    [@ EXCEPT !.phase = "fetched",
                              !.entries = entries.entries,
                              !.total = totalData.total]]
      /\ UNCHANGED <<now, issued, req, res, before, deleted, cleared, written,
                     stream, page, inflight, local, conn>>

\* the responses of refresh i have arrived: renderEntries and renderTotal
Deliver(i) ==
  /\ view.refreshes[i].phase = "fetched"
  /\ view' = [list |-> renderEntries(view.refreshes[i].entries),
              total |-> view.refreshes[i].total,
              refreshes |-> Removed(view.refreshes, i)]
  /\ UNCHANGED <<server, stream, page, inflight, local, conn>>

ViewNext ==
  \/ ViewAdd
  \/ \E i \in 1..Len(view.list) : ViewDelete(i)
  \/ ViewClear
  \/ \E i \in 1..Len(view.refreshes) : Fetch(i)
  \/ \E i \in 1..Len(view.refreshes) : Deliver(i)

SpecView == ViewInit /\ [][ViewNext]_vars

(***************************************************************************)
(* getTodayDate() of utils.js.  local holds what new Date() gives through  *)
(* getFullYear(), getMonth() (0 for January) and getDate(), and the text   *)
(* getTodayDate() makes of them, a sequence of characters.                 *)
(***************************************************************************)
Years == {1970, 2024, 9999}

IsLeap(y) == y % 4 = 0 /\ (y % 100 # 0 \/ y % 400 = 0)

\* the days of the month getMonth() numbers m
DaysIn(y, m) ==
  IF m = 1 THEN (IF IsLeap(y) THEN 29 ELSE 28)
  ELSE IF m \in {3, 5, 8, 10} THEN 30
  ELSE 31

DigitChars == <<"0", "1", "2", "3", "4", "5", "6", "7", "8", "9">>

\* String(n) of a whole number that is not negative
RECURSIVE String(_)
String(n) ==
  IF n < 10 THEN <<DigitChars[n + 1]>>
  ELSE String(n \div 10) \o <<DigitChars[(n % 10) + 1]>>

\* s.padStart(2, '0')
padStart(s) == IF Len(s) >= 2 THEN s ELSE <<"0">> \o s

\* getMonth() taken as the month's number
getTodayDateMonthFromZero(d) ==
  String(d.year) \o <<"-">> \o padStart(String(d.month)) \o <<"-">>
    \o padStart(String(d.date))

getTodayDate(d) ==
  LET y == String(d.year)
      m == padStart(String(d.month + 1))
      dd == padStart(String(d.date))
  IN  y \o <<"-">> \o m \o <<"-">> \o dd

DateInit ==
  /\ ServerAtRest
  /\ stream = <<>>
  /\ page = <<>>
  /\ inflight = <<>>
  /\ conn = <<>>
  /\ view = <<>>
  /\ \E y \in Years, m \in 0..11 :
       \E d \in 1..DaysIn(y, m) :
         local = [year |-> y, month |-> m, date |-> d, text |-> <<>>]

\* a call of getTodayDate()
CallGetTodayDate ==
  /\ local.text = <<>>
  /\ local' = [local EXCEPT !.text = getTodayDate(local)]
  /\ UNCHANGED <<server, stream, page, inflight, conn, view>>

DateNext == CallGetTodayDate

SpecDate == DateInit /\ [][DateNext]_vars

(***************************************************************************)
(* Properties.                                                             *)
(***************************************************************************)
\* the date a request with a date parameter was handled for
ReqDate == IF req.q = "" THEN req.today ELSE req.q

\* every entry a collection holds, whatever its date
RECURSIVE Flatten(_)
Flatten(entries) ==
  IF entries = <<>> THEN <<>> ELSE Head(entries).list \o Flatten(Tail(entries))

StoredEntries(f) == {Flatten(f.entries)[i] : i \in 1..Len(Flatten(f.entries))}

StoredIds(f) == {e.id : e \in StoredEntries(f)}

\* what GET /api/entries?date=d returns in the current state
Listed(d) == Respond(handleGetEntries(file, d, now)).entries

\* the calories a list of entries adds up to, last entry first
RECURSIVE CaloriesSum(_)
CaloriesSum(list) ==
  IF Len(list) = 0 THEN 0
  ELSE LET e == list[Len(list)]
       IN  CaloriesSum(SubSeq(list, 1, Len(list) - 1))
             + (IF e.calories.t = "number" THEN e.calories.n ELSE 0)

\* C1: GET /api/total for a date answers 200 with a total equal to the sum of
\* the calories of the entries GET /api/entries returns for that date at that
\* moment, and 0 when the date has no entries.
C1_TotalIsSumOfListed ==
  (req.op = "GET_TOTAL" /\ ReqDate \in CalendarDates) =>
    /\ res.status = 200
    /\ res.total = CaloriesSum(Listed(ReqDate))
    /\ Listed(ReqDate) = <<>> => res.total = 0

\* a total over two listed entries
C1_Witness ==
  /\ req.op = "GET_TOTAL"
  /\ ReqDate \in CalendarDates
  /\ Len(Listed(ReqDate)) = 2
  /\ res.total = 2

\* C2: once DELETE /api/entries/{id} has answered 204, no later GET
\* /api/entries, for any date, returns an entry with that id.
C2_DeletedNeverListed ==
  req.op = "GET_ENTRIES" =>
    \A i \in 1..Len(res.entries) : res.entries[i].id \notin deleted

\* a list returned after a deletion, with the entry that was left
C2_Witness ==
  /\ req.op = "GET_ENTRIES"
  /\ res.status = 200
  /\ deleted # {}
  /\ Len(res.entries) = 1

\* C3: after DELETE /api/entries for a date, and until an entry is created on
\* that date, GET /api/entries for it returns an empty array and GET
\* /api/total for it returns total 0.
C3_ClearedDateIsEmpty ==
  /\ (req.op = "GET_ENTRIES" /\ ReqDate \in cleared \cap CalendarDates) =>
       (res.status = 200 /\ res.entries = <<>>)
  /\ (req.op = "GET_TOTAL" /\ ReqDate \in cleared \cap CalendarDates) =>
       (res.status = 200 /\ res.total = 0)

\* a list asked for a cleared date on which entries had been created
C3_Witness ==
  /\ req.op = "GET_ENTRIES"
  /\ ReqDate \in cleared \cap CalendarDates
  /\ Len(issued) = MaxEntries
  /\ deleted = {}
  /\ StoredIds(file) = {}
  /\ res.entries = <<>>

\* a POST whose body decoded to an object
PostedObject == req.op = "POST" /\ req.body.text = "json" /\ req.body.kind = "object"

\* a name that is a string with something left after trimming
NameIsValid(name) == name.t = "string" /\ Trim(name.s) # <<>>

\* a calories that is a finite number, zero or more
CaloriesIsValid(calories) == calories.t = "number" /\ calories.n >= 0

\* C4: every accepted POST answers 201 with an entry made of a fresh id, the
\* submitted name trimmed, the submitted calories number and a creation
\* timestamp, and a following GET /api/entries returns the entry with that id
\* with those four field values.
C4_CreatedEntryAsSubmitted ==
  (req.op = "POST" /\ res.status = 201) =>
    LET e == res.entry[1]
    IN  /\ \A i \in 1..(Len(issued) - 1) : issued[i] # e.id
        /\ e.name = Trim(req.body.name.s)
        /\ e.calories = req.body.calories
        /\ e.timestamp = now
        /\ \E i \in 1..Len(Listed(req.today)) : Listed(req.today)[i] = e
        /\ \A d \in CalendarDates : \A i \in 1..Len(Listed(d)) :
             Listed(d)[i].id = e.id => Listed(d)[i] = e

C6_BadNameRejected ==
  (PostedObject /\ ~NameIsValid(req.body.name)) =>
    (res.status = 400 /\ res.error # "" /\ file = before)

\* C7: POST with a valid name whose calories is absent, null, not a number, not
\* finite or negative is answered 400 with an error payload, and the persisted
\* collection is unchanged.
C7_BadCaloriesRejected ==
  (PostedObject /\ NameIsValid(req.body.name) /\ ~CaloriesIsValid(req.body.calories)) =>
    (res.status = 400 /\ res.error # "" /\ file = before)

\* C8: POST whose body is not JSON is answered 400 with an error message that
\* no validation failure has, and the persisted collection is unchanged.
C8_MalformedBodyRejected ==
  (req.op = "POST" /\ req.body.text = "malformed") =>
    /\ res.status = 400
    /\ res.error # ""
    /\ res.error \notin ValidationMessages
    /\ file = before

\* a malformed body turned away while entries are stored
C8_Witness ==
  /\ req.op = "POST"
  /\ req.body.text = "malformed"
  /\ res.status = 400
  /\ StoredIds(file) # {}

\* C9: DELETE /api/entries/{id} with an id no stored entry has is answered 404
\* "Entry not found", and the persisted collection is unchanged: an existing
\* file is not written (an absent one is created empty by the load).
C9_UnknownIdNotFound ==
  (req.op = "DELETE_ID" /\ req.id \notin StoredIds(before)) =>
    /\ res.status = 404
    /\ res.error = "Entry not found"
    /\ readData(file) = readData(before)
    /\ before.exists => file = before

\* an unknown id asked for while entries are stored
C9_Witness ==
  /\ req.op = "DELETE_ID"
  /\ res.status = 404
  /\ StoredIds(before) # {}
  /\ StoredIds(file) = StoredIds(before)

\* the date key an id is stored under
KeysOfId(f, id) ==
  {f.entries[i].key : i \in {j \in 1..Len(f.entries) : FindIndex(f.entries[j].list, id) # 0}}

C11_ClearLeavesOtherDates ==
  (req.op = "CLEAR" /\ ReqDate \in CalendarDates) =>
    /\ res.status = 204
    /\ res.error = "" /\ res.entries = <<>> /\ res.entry = <<>>
    /\ \A d \in CalendarDates \ {ReqDate} :
         ListAt(readData(file), d) = ListAt(readData(before), d)
    /\ Keys(readData(file)) = Keys(readData(before)) \ {ReqDate}
    /\ ListAt(readData(before), ReqDate) = <<>> => readData(file) = readData(before)

\* a date with entries cleared while another date has entries
C11_Witness ==
  /\ req.op = "CLEAR"
  /\ ReqDate \in CalendarDates
  /\ ListAt(readData(before), ReqDate) # <<>>
  /\ StoredIds(file) # {}
  /\ res.status = 204

\* C14: for every value of the date parameter under which no entry is stored,
\* a well-formed date or not, GET /api/entries answers 200 with an empty array
\* and GET /api/total answers 200 with total 0.
C14_UnstoredDateIsEmpty ==
  /\ (req.op = "GET_ENTRIES" /\ ReqDate \notin Keys(readData(before))) =>
       (res.status = 200 /\ res.entries = <<>>)
  /\ (req.op = "GET_TOTAL" /\ ReqDate \notin Keys(readData(before))) =>
       (res.status = 200 /\ res.total = 0)

C16_TimestampDateIsKey ==
  \A i \in 1..Len(file.entries) : \A j \in 1..Len(file.entries[i].list) :
    IsoDate(file.entries[i].list[j].timestamp) = file.entries[i].key

\* C20: when the store file is absent, a request that loads the store sees an
\* empty collection, and after the load the file exists and holds the empty
\* collection.
C20_AbsentFileInitialised ==
  /\ (~before.exists /\ req.op \in {"GET_ENTRIES", "GET_TOTAL", "DELETE_ID", "CLEAR"}) =>
       /\ file.exists
       /\ file.entries = <<>>
       /\ (req.op = "GET_ENTRIES" /\ ReqDate \in CalendarDates) =>
            (res.status = 200 /\ res.entries = <<>>)
       /\ (req.op = "GET_TOTAL" /\ ReqDate \in CalendarDates) =>
            (res.status = 200 /\ res.total = 0)
       /\ req.op = "DELETE_ID" => res.status = 404
  /\ (~before.exists /\ req.op = "POST" /\ res.status = 201) =>
       (file.exists /\ Flatten(file.entries) = <<res.entry[1]>>)

\* the first request of a fresh server, a list, leaves the file created
C20_Witness ==
  /\ ~before.exists
  /\ req.op = "GET_ENTRIES"
  /\ res.status = 200
  /\ file.exists
  /\ file.entries = <<>>

\* a method and a pathname that are one of the five routes
MatchesRoute(method, path) ==
  \/ method = "GET" /\ path \in {EntriesPath, TotalPath}
  \/ method = "POST" /\ path = EntriesPath
  \/ method = "DELETE" /\ path = EntriesPath
  \/ method = "DELETE" /\ Len(path) = 3 /\ path[1] = "api" /\ path[2] = "entries"

\* C12: every request whose path starts with /api/ and matches none of the five
\* routes is answered 404 "Not found", is not handed to the static file
\* responder, and leaves the persisted collection unchanged.
C12_UnknownApiRouteNotFound ==
  (~Idle /\ Len(req.path) >= 2 /\ req.path[1] = "api"
     /\ ~MatchesRoute(req.method, req.path)) =>
    /\ res.status = 404
    /\ res.error = "Not found"
    /\ req.op # "STATIC"
    /\ file = before

\* a POST to the path of an entry, while entries are stored
C12_Witness ==
  /\ req.method = "POST"
  /\ req.path = EntryPath(0)
  /\ res.status = 404
  /\ res.error = "Not found"
  /\ StoredIds(file) # {}

\* the calories of every entry of a collection are finite numbers
FiniteCalories(entries) ==
  \A i \in 1..Len(entries) : \A j \in 1..Len(entries[i].list) :
    entries[i].list[j].calories.t = "number"

\* C17: saving a collection the API has built and then loading it yields an
\* equal collection: the same date keys, and under each key the same entries
\* in the same order with the same id, name, calories and timestamp.
C17_SaveLoadRoundTrip ==
  written.done =>
    /\ file = writeData(written.entries)
    /\ readData(file) = written.entries

\* the request loads the store: every route but a creation turned away
\* before readData is called
LoadsStore ==
  \/ req.op \in {"GET_ENTRIES", "GET_TOTAL", "DELETE_ID", "CLEAR"}
  \/ /\ PostedObject
     /\ NameIsValid(req.body.name)
     /\ CaloriesIsValid(req.body.calories)

\* C18: when the store file exists and cannot be parsed, a request that loads
\* the store is answered 500 and the file is left as it was.
C18_UnparsableFileIsFatal ==
  (LoadsStore /\ res # NoResponse /\ before.exists /\ ~before.parsable) =>
    /\ res.status = 500
    /\ file = before

\* C19: after the process stopped during a save the file holds the complete
\* collection from before the save or the complete new one: it is never
\* left truncated or unparsable.
C19_SaveIsAtomic ==
  /\ file.exists => file.parsable
  /\ (~Idle /\ res = NoResponse) =>
       readData(file) \in {readData(before), JSONEntries(written.entries)}

\* the bytes res.end(body) writes: two for the character outside ASCII, one
\* (shown as 0) for every ASCII character
RECURSIVE Utf8(_)
Utf8(text) ==
  IF text = <<>> THEN <<>>
  ELSE (IF Head(text) = EAcute THEN <<195, 169>>
        ELSE [i \in 1..Len(Head(text)) |-> 0]) \o Utf8(Tail(text))

\* C13: every API response with a status other than 204 carries Content-Type
\* application/json and a Content-Length equal to the byte length of the JSON
\* text sent as its body, and every 204 response is sent without a body.
C13_ContentHeaders ==
  (~Idle /\ req.op # "STATIC" /\ res # NoResponse) =>
    LET w == WireOf(res)
    IN  /\ res.status # 204 =>
             /\ w.contentType = "application/json"
             /\ w.hasBody
             /\ w.body # <<>>
             /\ w.contentLength = Len(Utf8(w.body))
        /\ res.status = 204 =>
             /\ ~w.hasBody
             /\ w.body = <<>>

\* a listing of two entries whose names hold a character of two bytes
C13_Witness ==
  /\ req.op = "GET_ENTRIES"
  /\ Len(res.entries) = 2
  /\ \A i \in 1..2 : res.entries[i].name = <<EAcute>>
  /\ WireOf(res).contentLength = Len(Utf8(WireOf(res).body))
  /\ Cardinality({i \in 1..WireOf(res).contentLength :
                     Utf8(WireOf(res).body)[i] = 195}) = 2

\* C21: every exception raised while a request is handled, a failure to
\* parse the request URL included, is converted into a 500 response with an
\* error payload, and the process goes on serving later requests.
C21_ExceptionsBecome500 ==
  /\ req.op = "INVALID_URL" => res = InternalError
  /\ ~Idle => res.kind \notin {"none", "exit"}

\* calories that the flat-array server's creation lets through
CaloriesIsPositive(calories) == calories.t = "number" /\ calories.n > 0

C25_FlatCreateThenList ==
  /\ (PostedObject /\ NameIsValid(req.body.name)
        /\ CaloriesIsPositive(req.body.calories)) =>
       /\ res.status = 201
       /\ res.kind = "entry"
       /\ file.entries = Append(before.entries, res.entry[1])
  /\ req.op = "GET_ENTRIES" =>
       /\ res.status = 200
       /\ res.kind = "entries"
       /\ res.entries = file.entries
  /\ req.op = "GET_TOTAL" =>
       /\ res.status = 200
       /\ res.total = CaloriesSum(file.entries)

\* the entries of a list created on date d, and those created on another date
CreatedOn(list, d) ==
  LET On(e) == IsoDate(e.timestamp) = d IN SelectSeq(list, On)

CreatedOff(list, d) ==
  LET Off(e) == IsoDate(e.timestamp) # d IN SelectSeq(list, Off)

\* C26: in the flat-array server GET /api/entries?date=D and
\* GET /api/total?date=D take into account only the entries created on D, and
\* DELETE /api/entries?date=D removes only the entries created on D.
C26_FlatScopedByDate ==
  /\ (req.op = "GET_ENTRIES" /\ res.kind = "entries") =>
       res.entries = CreatedOn(before.entries, ReqDate)
  /\ (req.op = "GET_TOTAL" /\ res.status = 200) =>
       res.total = CaloriesSum(CreatedOn(before.entries, ReqDate))
  /\ (req.op = "CLEAR" /\ res.status = 204) =>
       /\ CreatedOn(file.entries, ReqDate) = <<>>
       /\ CreatedOff(file.entries, ReqDate) = CreatedOff(before.entries, ReqDate)

\* the settlement of a body whose bytes, put together, are text
OfWholeText(text) == onEnd(Decode(text))

\* C29: parseBody's result depends only on the concatenation of the chunks,
\* not on how the body is split: on 'end' it resolves with the JSON value of
\* the concatenated text, with {} when no data arrived, and rejects with
\* 'Invalid JSON' when the text is not JSON; it never settles before 'end' or
\* 'error' is emitted.
C29_ResultOfConcatenation ==
  /\ (~stream.ended /\ ~stream.errored) => stream.promise = Pending
  /\ (stream.ended /\ ~stream.errored) =>
       /\ stream.promise = OfWholeText(stream.atEnd)
       /\ stream.atEnd = <<>> => stream.promise = Resolved({}, <<>>)
       /\ ~IsJSON(Decode(stream.atEnd)) /\ stream.atEnd # <<>> =>
            stream.promise = Rejected("Invalid JSON")

\* C30: when the request emits 'error' before 'end', parseBody rejects with
\* the emitted error itself; the promise settles once, so no event emitted
\* after it has settled changes its outcome.
C30_SettlesOnce ==
  [][/\ stream.promise # Pending => stream'.promise = stream.promise
     /\ (stream.promise = Pending /\ stream'.last \in StreamErrors) =>
          stream'.promise = Rejected(stream'.last)]_vars

\* the promise rejected with the emitted error, and 'end' emitted after it
C30_Witness ==
  /\ stream.promise = Rejected("socket hang up")
  /\ stream.ended
  /\ stream.last = "end"

\* the calories texts that are whole numbers of at least 1
WholeCalories == {<<"1">>, <<" ", "2">>}

\* C28: the browser client sends no POST /api/entries unless the food name
\* is non-empty after trimming and the calories field is a whole number of at
\* least 1: an empty name or a zero, negative, fractional or non-numeric
\* calories value never leaves the form.
C28_FormSendsOnlyValid ==
  page.sent =>
    /\ \E i \in 1..Len(page.form.name) : page.form.name[i] # " "
    /\ page.form.calories \in WholeCalories

\* a valid form was sent and the server answered 201
C28_Witness ==
  /\ page.sent
  /\ page.posted # <<>>
  /\ page.form.calories = <<" ", "2">>

\* C27: after the client has posted an entry with success and its refresh
\* has completed, the rendered log contains that entry and the rendered total
\* includes its calories, whatever the difference between the browser's local
\* date and the server's UTC date.
C27_PostedEntryIsRendered ==
  (page.refreshed /\ page.posted # <<>>) =>
    /\ \E i \in 1..Len(page.list) : page.list[i] = page.posted[1]
    /\ page.total = CaloriesSum(page.list)

\* the orders in which the completed requests can be run one at a time
SerialOrders ==
  {order \in [1..Cardinality(Completed) -> Completed] :
     \A j, k \in 1..Cardinality(Completed) : j # k => order[j] # order[k]}

\* running the requests of order one at a time from file f gives the
\* responses that were sent and ends with the file as it is
RECURSIVE SerialMatches(_, _)
SerialMatches(f, order) ==
  IF order = <<>> THEN f = file
  ELSE LET slot == inflight[Head(order)]
           o == Execute(slot.r, f, slot.ids, now)
       IN  /\ Respond(o) = slot.res
           /\ SerialMatches(o.file, Tail(order))

\* C23: no handler suspends between its load and its save (the only
\* suspension of POST, reading the body, comes before the load), so for any
\* interleaving of concurrent POST, DELETE-by-id, clear and GET requests the
\* final collection and every response equal those of running the same
\* requests one at a time in some order.
C23_Serializable ==
  /\ \A i \in Slots : inflight[i].phase # "loaded"
  /\ \E order \in SerialOrders : SerialMatches(before, order)

\* two creations in flight together, answered in the order 2, 1
C23_Witness ==
  /\ \A i \in Slots :
       /\ inflight[i].phase = "done"
       /\ inflight[i].overlap
       /\ inflight[i].r.op = "POST"
       /\ inflight[i].res.status = 201
  /\ inflight[2].seq < inflight[1].seq

Acknowledged(slot) ==
  /\ slot.phase = "done"
  /\ slot.r.op \in {"POST", "DELETE_ID", "CLEAR"}
  /\ slot.res.status \in {201, 204}

\* slot b was answered after slot a
Later(a, b) == b.phase = "done" /\ b.seq > a.seq

\* the acknowledged effect of the request of slot i is missing from the
\* store and no later request has removed it
Lost(i) ==
  LET a == inflight[i]
      b == inflight[3 - i]
      today == ListAt(readData(file), a.r.today)
  IN  /\ Acknowledged(a)
      /\ CASE a.r.op = "POST" ->
                /\ a.res.entry[1].id \notin StoredIds(file)
                /\ ~(/\ Later(a, b)
                     /\ b.res.status = 204
                     /\ \/ b.r.op = "CLEAR"
                        \/ b.r.op = "DELETE_ID" /\ b.r.id = a.res.entry[1].id)
           [] a.r.op = "DELETE_ID" -> a.r.id \in StoredIds(file)
           [] a.r.op = "CLEAR" ->
                \E k \in 1..Len(today) :
                  ~(/\ Later(a, b)
                    /\ b.r.op = "POST"
                    /\ b.res.status = 201
                    /\ b.res.entry[1].id = today[k].id)

\* two acknowledged mutating requests that were in flight together
Overlapped ==
  \A i \in Slots : Acknowledged(inflight[i]) /\ inflight[i].overlap

\* C22 as stated: two mutating requests in flight at the same time
\* interleave so that the save of one overwrites the change of the other: a
\* request was acknowledged with 201 or 204 and its effect is missing from
\* the store once both have completed, without a later request having
\* removed it.
C22_OverlapLosesUpdate == Overlapped => \E i \in Slots : Lost(i)

\* C22 amended: no interleaving of two mutating requests in flight at the
\* same time loses an update: the effect of every request acknowledged with
\* 201 or 204 is in the store unless a later request has removed it.
C22_NoLostUpdate == \A i \in Slots : ~Lost(i)

\* a creation and a clear in flight together, both acknowledged, the
\* clear first: the entry created is in the store
C22_Witness ==
  /\ Overlapped
  /\ inflight[1].r.op = "POST"
  /\ inflight[2].r.op = "CLEAR"
  /\ Later(inflight[2], inflight[1])
  /\ inflight[1].res.entry[1].id \in StoredIds(file)

\* the entries of list other than the one with the id
Without(list, id) == SelectSeq(list, LAMBDA e : e.id # id)

\* C32: a DELETE /api/entries/{id} answered 204 removes exactly one entry,
\* the one with that id: every other entry, on every date, is still stored
\* unchanged, under the same date key and in the same relative order.
C32_DeleteRemovesExactlyOne ==
  (req.op = "DELETE_ID" /\ res.status = 204) =>
    /\ Len(Flatten(file.entries)) = Len(Flatten(before.entries)) - 1
    /\ Keys(file.entries) \subseteq Keys(before.entries)
    /\ \A i \in 1..Len(before.entries) :
         ListAt(file.entries, before.entries[i].key) =
           Without(before.entries[i].list, req.id)

\* one of two entries of a date deleted, the other left under that date
C32_Witness ==
  /\ req.op = "DELETE_ID"
  /\ res.status = 204
  /\ Len(ListAt(before.entries, req.today)) = 2
  /\ Len(ListAt(file.entries, req.today)) = 1

\* C33: an accepted POST /api/entries adds exactly one entry, at the end of
\* the sequence of the current date (creating the key when absent), and
\* leaves every stored entry unchanged and in the same order; GET
\* /api/entries lists the entries of a date in the order of their creation.
C33_CreateAppends ==
  /\ (req.op = "POST" /\ res.status = 201) =>
       /\ ListAt(file.entries, req.today) =
            Append(ListAt(readData(before), req.today), res.entry[1])
       /\ Keys(file.entries) = Keys(readData(before)) \cup {req.today}
       /\ \A k \in Keys(readData(before)) \ {req.today} :
            ListAt(file.entries, k) = ListAt(readData(before), k)
  /\ (req.op = "GET_ENTRIES" /\ res.kind = "entries") =>
       \A i, j \in 1..Len(res.entries) :
         i < j => res.entries[i].id < res.entries[j].id

\* a second entry created on a date, after the first
C33_Witness ==
  /\ req.op = "POST"
  /\ res.status = 201
  /\ Len(ListAt(readData(before), req.today)) = 1
  /\ Len(ListAt(file.entries, req.today)) = 2

\* C34: in every persisted state reached from the empty collection by
\* creations, deletions by id and clears, no date key maps to an empty
\* sequence.
C34_NoEmptyDate ==
  \A i \in 1..Len(file.entries) : file.entries[i].list # <<>>

\* the only entry of a date deleted while another date has an entry
C34_Witness ==
  /\ req.op = "DELETE_ID"
  /\ res.status = 204
  /\ Len(before.entries) = 2
  /\ Len(file.entries) = 1

\* the number a sequence of digit characters writes; -1 when a character
\* is no digit
RECURSIVE DecimalValue(_)
DecimalValue(chars) ==
  IF chars = <<>> THEN 0
  ELSE LET c == chars[Len(chars)]
           front == DecimalValue(SubSeq(chars, 1, Len(chars) - 1))
       IN  IF front < 0 \/ \A k \in 1..10 : DigitChars[k] # c THEN -1
           ELSE 10 * front + (CHOOSE k \in 0..9 : DigitChars[k + 1] = c)

\* C31: getTodayDate returns the current date of the system's local calendar
\* as the text YYYY-MM-DD, with the month numbered from 1 and the month and
\* the day each zero-padded to two digits.
C31_TodayIsLocalIsoDate ==
  local.text # <<>> =>
    /\ Len(local.text) = 10
    /\ local.text[5] = "-"
    /\ local.text[8] = "-"
    /\ DecimalValue(SubSeq(local.text, 1, 4)) = local.year
    /\ DecimalValue(SubSeq(local.text, 6, 7)) = local.month + 1
    /\ DecimalValue(SubSeq(local.text, 9, 10)) = local.date

\* the date read on the 5th of January: month and day are both padded
C31_Witness ==
  /\ local.text = <<"2", "0", "2", "4", "-", "0", "1", "-", "0", "5">>
  /\ local.month = 0

\* C36: for every request body that decodes as JSON, whatever the type of
\* the decoded value (object, array, string, number, boolean or null), POST
\* /api/entries answers 201 or 400 and never 500.
C36_JsonBodyNever500 ==
  (req.op = "POST" /\ req.body.text = "json") => res.status \in {201, 400}

Mutating == {"POST", "DELETE_ID", "CLEAR"}

\* C35: for every mutating request the save completes before the success
\* response is emitted: a request handled after a 201 or 204 observes the
\* mutation, and when the save fails the request is answered 500 and never
\* 201 or 204.
C35_SavedBeforeAnswered ==
  /\ (req.op \in Mutating /\ res.status \in {201, 204}) =>
       /\ written.done
       /\ file = writeData(written.entries)
       /\ req.op = "POST" => res.entry[1].id \in StoredIds(file)
       /\ req.op = "DELETE_ID" => req.id \notin StoredIds(file)
       /\ req.op = "CLEAR" => ListAt(file.entries, ReqDate) = <<>>
  /\ written = SaveFailed => res.status = 500

\* the save of a creation failed part way and the request was answered 500
C35_Witness ==
  /\ written = SaveFailed
  /\ req.op = "POST"
  /\ res.status = 500
  /\ file = Truncated

\* C37: every API request receives exactly one response: no handler path
\* writes a second response to the same request, and every request whose
\* body has ended or errored is eventually answered.
C37_ExactlyOneResponse ==
  /\ [](Len(conn.answers) <= 1)
  /\ [](conn.phase = "answered" => Len(conn.answers) = 1)
  /\ ((conn.ended \/ conn.errored) ~> (Len(conn.answers) = 1))

\* a creation whose body errored and then ended, answered 400 once
C37_Witness ==
  /\ conn.errored
  /\ conn.ended
  /\ conn.promise = Rejected("socket hang up")
  /\ Len(conn.answers) = 1
  /\ conn.answers[1].status = 400

\* C38: whenever no client request is in flight, the rendered entry list
\* and the rendered total equal what the server holds for the client's date,
\* whatever the order in which the responses of overlapping refreshes arrive.
C38_RenderedIsStored ==
  view.refreshes = <<>> =>
    /\ view.list = renderEntries(Listed(todayStr(now, 0)))
    /\ view.total = CaloriesSum(Listed(todayStr(now, 0)))

====
